---- MODULE Spec2Model ----
(***************************************************************************)
(* Statistical core of the KPI dashboard: detectTrend, createForecast,     *)
(* identifyDrivers and performAiAnalysis (src/services/kpiService.ts),     *)
(* calculateCorrelation and the correlation memo of KpiCorrelation         *)
(* (src/components/KpiTrendComparison.tsx), and the series statistics of   *)
(* KpiDeepDive (src/components/ReportGenerator.tsx) and of                 *)
(* generateDeepDiveAnalysis (src/services/kpiService.ts).                  *)
(*                                                                         *)
(* JavaScript numbers are modelled as exact rationals extended with NaN    *)
(* and +/-Infinity: [n |-> numerator, d |-> denominator], kept in lowest   *)
(* terms with d > 0; NaN is 0/0 and +/-Infinity is +/-1/0.  Rounding error *)
(* of IEEE doubles and the sign of zero are not modelled.  A read outside  *)
(* an array (undefined in JavaScript) is only ever used as an operand of   *)
(* arithmetic in this code, where it behaves as NaN, so it is read as NaN. *)
(***************************************************************************)
EXTENDS Integers, Sequences, FiniteSets, TLC

VARIABLES data, periods, kpiId, pc, trend, forecast, drivers, err,
          x, y, cpc, corr, sameKpi,
          history, spc, stats, promptStats,
          apiKey, aiInstance, constructed, requests,
          modalOpen, instance, analysisReady, isThinking, streamingResponse,
          stopGeneration, chatHistory, sends, edits,
          baseMetrics, scenario, kpiKeys, results, calcErr, kpc,
          analyses, pools,
          isTourOpen, tourStepIndex, timers, activeTab, hasSeenTour, lastEvent

pipeVars == <<data, periods, kpiId, pc, trend, forecast, drivers, err>>
corrVars == <<x, y, cpc, corr, sameKpi>>
statVars == <<history, spc, stats, promptStats>>
coreVars == <<pipeVars, corrVars, statVars>>
aiVars == <<apiKey, aiInstance, constructed, requests>>
chatVars == <<modalOpen, instance, analysisReady, isThinking, streamingResponse,
              stopGeneration, chatHistory, sends, edits>>
calcVars == <<baseMetrics, scenario, kpiKeys, results, calcErr, kpc>>
frameVars == <<analyses, pools>>
tourVars == <<isTourOpen, tourStepIndex, timers, activeTab, hasSeenTour, lastEvent>>
appVars == <<aiVars, chatVars, calcVars, frameVars, tourVars>>
notAiVars == <<coreVars, chatVars, calcVars, frameVars, tourVars>>
notChatVars == <<coreVars, apiKey, requests, calcVars, frameVars, tourVars>>
notCalcVars == <<coreVars, aiVars, chatVars, frameVars, tourVars>>
notTourVars == <<coreVars, aiVars, chatVars, calcVars, frameVars>>
vars == <<data, periods, kpiId, pc, trend, forecast, drivers, err,
          x, y, cpc, corr, sameKpi, history, spc, stats, promptStats,
          apiKey, aiInstance, constructed, requests,
          modalOpen, instance, analysisReady, isThinking, streamingResponse,
          stopGeneration, chatHistory, sends, edits,
          baseMetrics, scenario, kpiKeys, results, calcErr, kpc,
          analyses, pools,
          isTourOpen, tourStepIndex, timers, activeTab, hasSeenTour, lastEvent>>

(***************************** bounds **************************************)
MaxLen == 3
MaxPeriods == 4
MaxCorrLen == 4
MaxCorrVal == 1
MaxStatLen == 3
MaxCalls == 3
MaxChunks == 2
MaxSends == 2
MaxEdits == 1
MaxKeys == 2
MaxAnalyses == 2
MaxTimers == 2

(************************ JavaScript numbers *******************************)
Abs(i) == IF i < 0 THEN -i ELSE i

Sign(i) == IF i > 0 THEN 1 ELSE IF i < 0 THEN -1 ELSE 0

RECURSIVE GCD(_, _)
GCD(a, b) == IF b = 0 THEN a ELSE GCD(b, a % b)

NaN == [n |-> 0, d |-> 0]

\* the number num/den, in lowest terms; den = 0 gives NaN or +/-Infinity
Norm(num, den) ==
    IF den = 0 THEN [n |-> Sign(num), d |-> 0]
    ELSE LET g == GCD(Abs(num), Abs(den))
             s == Sign(den)
         IN [n |-> (s * num) \div g, d |-> (s * den) \div g]

RInt(i) == [n |-> i, d |-> 1]

IsNaN(a) == a.n = 0 /\ a.d = 0

IsFinite(a) == a.d > 0

RNeg(a) == [n |-> -a.n, d |-> a.d]

RAdd(a, b) ==
    IF IsNaN(a) \/ IsNaN(b) THEN NaN
    ELSE IF a.d = 0 /\ b.d = 0 THEN (IF a.n = b.n THEN a ELSE NaN)
    ELSE IF a.d = 0 THEN a
    ELSE IF b.d = 0 THEN b
    ELSE Norm(a.n * b.d + b.n * a.d, a.d * b.d)

RSub(a, b) == RAdd(a, RNeg(b))

RMul(a, b) == Norm(a.n * b.n, a.d * b.d)

RDiv(a, b) ==
    IF IsNaN(a) \/ IsNaN(b) THEN NaN
    ELSE IF b.d = 0 THEN (IF a.d = 0 THEN NaN ELSE RInt(0))
    ELSE IF b.n = 0 THEN Norm(a.n, 0)
    ELSE Norm(a.n * b.d, a.d * b.n)

\* a < b; every comparison with NaN is false
RLt(a, b) ==
    /\ ~IsNaN(a)
    /\ ~IsNaN(b)
    /\ IF a.d = 0 /\ b.d = 0 THEN a.n < b.n
       ELSE IF a.d = 0 THEN a.n < 0
       ELSE IF b.d = 0 THEN b.n > 0
       ELSE a.n * b.d < b.n * a.d

RGt(a, b) == RLt(b, a)

RLe(a, b) == ~IsNaN(a) /\ ~IsNaN(b) /\ ~RLt(b, a)

\* arr[i] with the 0-based index of the source
At(arr, i) == IF i >= 0 /\ i < Len(arr) THEN arr[i + 1] ELSE NaN

\* Number.prototype.toFixed(0): nearest integer, halves away from zero
ToFixed0(a) ==
    IF ~IsFinite(a) THEN a
    ELSE IF a.n >= 0 THEN RInt((2 * a.n + a.d) \div (2 * a.d))
    ELSE RInt(-((2 * (-a.n) + a.d) \div (2 * a.d)))

(**************************** detectTrend **********************************)
\* the loop of detectTrend: sums over i = 0 .. n-1
RECURSIVE SumLoop(_, _, _)
SumLoop(arr, i, acc) ==
    IF i >= Len(arr) THEN acc
    ELSE SumLoop(arr, i + 1,
                 [sumX  |-> RAdd(acc.sumX, RInt(i)),
                  sumY  |-> RAdd(acc.sumY, At(arr, i)),
                  sumXY |-> RAdd(acc.sumXY, RMul(RInt(i), At(arr, i))),
                  sumXX |-> RAdd(acc.sumXX, RInt(i * i))])

Sums(arr) == SumLoop(arr, 0, [sumX |-> RInt(0), sumY |-> RInt(0),
                              sumXY |-> RInt(0), sumXX |-> RInt(0)])

\* the slope with the square of sumX left out of the denominator
SlopeNoSquare(arr) ==
    LET s == Sums(arr)
        n == RInt(Len(arr))
    IN RDiv(RSub(RMul(n, s.sumXY), RMul(s.sumX, s.sumY)),
            RSub(RMul(n, s.sumXX), s.sumX))

Slope(arr) ==
    LET s == Sums(arr)
        n == RInt(Len(arr))
    IN RDiv(RSub(RMul(n, s.sumXY), RMul(s.sumX, s.sumY)),
            RSub(RMul(n, s.sumXX), RMul(s.sumX, s.sumX)))

Intercept(arr) ==
    LET s == Sums(arr)
    IN RDiv(RSub(s.sumY, RMul(Slope(arr), s.sumX)), RInt(Len(arr)))

TrendLine(arr) ==
    LET slope == Slope(arr)
        intercept == Intercept(arr)
    IN [i \in 1..Len(arr) |-> RAdd(RMul(slope, RInt(i - 1)), intercept)]

ModerateFactor == [n |-> 1, d |-> 200]

StrongFactor == [n |-> 3, d |-> 200]

\* the labels stand for the Russian texts of the source:
\* "stable" = "стабильный", "moderateGrowth" = "умеренный рост",
\* "strongGrowth" = "уверенный рост", "moderateDecline" = "небольшое
\* снижение", "strongDecline" = "существенное снижение"
Labels == {"strongDecline", "moderateDecline", "stable", "moderateGrowth", "strongGrowth"}

\* the ifs with >= and <= in place of > and <
TrendDescriptionInclusive(slope, first) ==
    LET d0 == "stable"
        d1 == IF RLe(RMul(first, ModerateFactor), slope) THEN "moderateGrowth" ELSE d0
        d2 == IF RLe(RMul(first, StrongFactor), slope) THEN "strongGrowth" ELSE d1
        d3 == IF RLe(slope, RMul(RNeg(first), ModerateFactor)) THEN "moderateDecline" ELSE d2
        d4 == IF RLe(slope, RMul(RNeg(first), StrongFactor)) THEN "strongDecline" ELSE d3
    IN d4

\* the ifs with the two growth texts exchanged
TrendDescriptionSwapped(slope, first) ==
    LET d0 == "stable"
        d1 == IF RGt(slope, RMul(first, ModerateFactor)) THEN "strongGrowth" ELSE d0
        d2 == IF RGt(slope, RMul(first, StrongFactor)) THEN "moderateGrowth" ELSE d1
        d3 == IF RLt(slope, RMul(RNeg(first), ModerateFactor)) THEN "moderateDecline" ELSE d2
        d4 == IF RLt(slope, RMul(RNeg(first), StrongFactor)) THEN "strongDecline" ELSE d3
    IN d4

\* the ifs with each strong test placed before its moderate test
TrendDescriptionReordered(slope, first) ==
    LET d0 == "stable"
        d1 == IF RGt(slope, RMul(first, StrongFactor)) THEN "strongGrowth" ELSE d0
        d2 == IF RGt(slope, RMul(first, ModerateFactor)) THEN "moderateGrowth" ELSE d1
        d3 == IF RLt(slope, RMul(RNeg(first), StrongFactor)) THEN "strongDecline" ELSE d2
        d4 == IF RLt(slope, RMul(RNeg(first), ModerateFactor)) THEN "moderateDecline" ELSE d3
    IN d4

\* the four successive overwriting ifs of detectTrend
TrendDescription(slope, first) ==
    LET d0 == "stable"
        d1 == IF RGt(slope, RMul(first, ModerateFactor)) THEN "moderateGrowth" ELSE d0
        d2 == IF RGt(slope, RMul(first, StrongFactor)) THEN "strongGrowth" ELSE d1
        d3 == IF RLt(slope, RMul(RNeg(first), ModerateFactor)) THEN "moderateDecline" ELSE d2
        d4 == IF RLt(slope, RMul(RNeg(first), StrongFactor)) THEN "strongDecline" ELSE d3
    IN d4

\* detectTrend with the bands taken from the second value of the series
detectTrendSecondValue(arr) ==
    [line |-> TrendLine(arr), description |-> TrendDescription(Slope(arr), At(arr, 1))]

detectTrend(arr) ==
    [line |-> TrendLine(arr),
     description |-> TrendDescription(Slope(arr), At(arr, 0))]

(**************************** inputs ***************************************)
Vals == {0, 197, 199, 200, 201, 203}

RECURSIVE SeqsUpTo(_, _)
SeqsUpTo(S, k) ==
    IF k = 0 THEN {<<>>}
    ELSE LET prev == SeqsUpTo(S, k - 1)
         IN prev \cup {Append(s, v) : s \in {p \in prev : Len(p) = k - 1}, v \in S}

ToNumbers(s) == [i \in 1..Len(s) |-> RInt(s[i])]

ScenarioSeries == {<<0, 203, 0, 0>>, <<100, 110, 105, 120, 115, 130, 125>>}

SeriesSet == {ToNumbers(s) : s \in SeqsUpTo(Vals, MaxLen) \cup ScenarioSeries}

NoTrend == [line |-> <<>>, description |-> "none"]

NoForecast == [values |-> <<>>, description |-> NaN]

PipeIdle ==
    /\ data = <<>>
    /\ periods = 0
    /\ kpiId = "none"
    /\ pc = "idle"
    /\ trend = NoTrend
    /\ forecast = NoForecast
    /\ drivers = <<>>
    /\ err = "none"

CorrIdle ==
    /\ x = <<>>
    /\ y = <<>>
    /\ cpc = "idle"
    /\ corr = [sign |-> 0, sq |-> [n |-> 0, d |-> 1]]
    /\ sameKpi = FALSE

NoStats == [avg |-> NaN, min |-> NaN, max |-> NaN, change |-> NaN]

StatsIdle ==
    /\ history = <<>>
    /\ spc = {"idle"}
    /\ stats = NoStats
    /\ promptStats = NoStats

\* the AI client module before any generate* call: no client, no request
NoRequest == [kind |-> "none", state |-> "unused", client |-> 0, out |-> <<>>]

AiIdle ==
    /\ apiKey = FALSE
    /\ aiInstance = 0
    /\ constructed = 0
    /\ requests = [id \in 1..MaxCalls |-> NoRequest]

\* streamingResponse is null, or a string (text)
NullResponse == [isNull |-> TRUE, text |-> <<>>]

NoSend == [state |-> "unused", inst |-> 0, historyForApi |-> <<>>,
           yielded |-> <<>>, consumed |-> 0, finalResponse |-> <<>>]

\* a run of handleSendMessage that has returned: its locals are gone
Returned == [NoSend EXCEPT !.state = "done"]

\* the dashboard before the chat modal was ever opened
ChatIdle ==
    /\ modalOpen = FALSE
    /\ instance = 0
    /\ analysisReady = FALSE
    /\ isThinking = FALSE
    /\ streamingResponse = NullResponse
    /\ stopGeneration = [i \in 1..MaxSends |-> FALSE]
    /\ chatHistory = <<>>
    /\ sends = [id \in 1..MaxSends |-> NoSend]
    /\ edits = 0

MetricKeys == {"traffic", "conversionRate", "avgOrderValue", "costs"}

\* no call of calculateKpis
CalcIdle ==
    /\ baseMetrics = [k \in MetricKeys |-> RInt(0)]
    /\ scenario = <<>>
    /\ kpiKeys = <<>>
    /\ results = <<>>
    /\ calcErr = "none"
    /\ kpc = "idle"

\* the driver texts are abbreviated: rev_p1 is the first text of
\* positiveDrivers.revenue, sal_n2 the second of negativeDrivers.sales, ...
positiveDrivers ==
    [revenue     |-> <<"rev_p1", "rev_p2", "rev_p3">>,
     sales       |-> <<"sal_p1", "sal_p2", "sal_p3">>,
     new_clients |-> <<"cli_p1", "cli_p2", "cli_p3">>,
     conversion  |-> <<"con_p1", "con_p2", "con_p3">>]

negativeDrivers ==
    [revenue     |-> <<"rev_n1", "rev_n2", "rev_n3">>,
     sales       |-> <<"sal_n1", "sal_n2">>,
     new_clients |-> <<"cli_n1", "cli_n2">>,
     conversion  |-> <<"con_n1", "con_n2">>]

\* no analysis is under way; the pools are the literals of identifyDrivers
FrameIdle ==
    /\ analyses = <<>>
    /\ pools = [positive |-> positiveDrivers, negative |-> negativeDrivers]

\* the application once the guided tour is over
TourIdle ==
    /\ isTourOpen = FALSE
    /\ tourStepIndex = 0
    /\ timers = <<>>
    /\ activeTab = "dashboard"
    /\ hasSeenTour = TRUE
    /\ lastEvent = "none"

CoreIdle == PipeIdle /\ CorrIdle /\ StatsIdle

AppIdle == AiIdle /\ ChatIdle /\ CalcIdle /\ FrameIdle /\ TourIdle

Init ==
    /\ data \in SeriesSet
    /\ periods = 0
    /\ kpiId = "none"
    /\ pc = "start"
    /\ trend = NoTrend
    /\ forecast = NoForecast
    /\ drivers = <<>>
    /\ err = "none"
    /\ CorrIdle
    /\ StatsIdle
    /\ AppIdle

(*************************** createForecast ********************************)
DefaultPeriods == 7

\* the loop with the seasonal index one too far: n - (periods - i)
RECURSIVE ForecastLoopShifted(_, _, _, _, _)
ForecastLoopShifted(arr, trendLine, per, i, values) ==
    IF i > per THEN values
    ELSE LET n == Len(arr)
             lastTrendValue == At(trendLine, n - 1)
             slope == RSub(At(trendLine, n - 1), At(trendLine, n - 2))
             seasonalComponent == RSub(At(arr, n - (per - i)),
                                       At(trendLine, n - (per - i)))
         IN ForecastLoopShifted(arr, trendLine, per, i + 1,
                Append(values, RAdd(RAdd(lastTrendValue, RMul(slope, RInt(i))),
                                    seasonalComponent)))

\* the loop of createForecast: pushes one value for i = 1 .. periods
RECURSIVE ForecastLoop(_, _, _, _, _)
ForecastLoop(arr, trendLine, per, i, values) ==
    IF i > per THEN values
    ELSE LET n == Len(arr)
             lastTrendValue == At(trendLine, n - 1)
             slope == RSub(At(trendLine, n - 1), At(trendLine, n - 2))
             seasonalComponent == RSub(At(arr, n - (per - i) - 1),
                                       At(trendLine, n - (per - i) - 1))
         IN ForecastLoop(arr, trendLine, per, i + 1,
                Append(values, RAdd(RAdd(lastTrendValue, RMul(slope, RInt(i))),
                                    seasonalComponent)))

\* the loop started at i = 0
ForecastValuesFromZero(arr, trendLine, per) == ForecastLoop(arr, trendLine, per, 0, <<>>)

ForecastValues(arr, trendLine, per) == ForecastLoop(arr, trendLine, per, 1, <<>>)

\* avgForecast of createForecast and its toFixed(0); the description field
\* holds the number printed in the text
ForecastDescription(values) ==
    LET firstForecast == At(values, 0)
        lastForecast == At(values, Len(values) - 1)
        avgForecast == RDiv(RAdd(firstForecast, lastForecast), RInt(2))
    IN ToFixed0(avgForecast)

createForecast(arr, trendLine, per) ==
    LET values == ForecastValues(arr, trendLine, per)
    IN [values |-> values, description |-> ForecastDescription(values)]

(*************************** identifyDrivers *******************************)
\* "Finance" stands for a category the pools do not have (such as "Финансы")
KpiIds == {"revenue", "sales", "new_clients", "conversion", "Finance"}

\* trendDescription.includes("рост") / .includes("снижение")
IncludesGrowth(description) == description \in {"moderateGrowth", "strongGrowth"}

IncludesDecline(description) == description \in {"moderateDecline", "strongDecline"}

\* positiveDrivers[kpiId] is undefined for an unknown key; sorting or
\* spreading undefined throws a TypeError
DriversThrows(kpi, description) ==
    IF IncludesGrowth(description) THEN kpi \notin DOMAIN positiveDrivers
    ELSE IF IncludesDecline(description) THEN kpi \notin DOMAIN negativeDrivers
    ELSE kpi \notin DOMAIN positiveDrivers \/ kpi \notin DOMAIN negativeDrivers

\* the choice of the pool with the two pools exchanged
DriverListExchanged(kpi, description) ==
    IF IncludesGrowth(description) THEN negativeDrivers[kpi]
    ELSE IF IncludesDecline(description) THEN positiveDrivers[kpi]
    ELSE positiveDrivers[kpi] \o negativeDrivers[kpi]

DriverList(kpi, description) ==
    IF IncludesGrowth(description) THEN positiveDrivers[kpi]
    ELSE IF IncludesDecline(description) THEN negativeDrivers[kpi]
    ELSE positiveDrivers[kpi] \o negativeDrivers[kpi]

\* two draws from the list with repetition allowed
ShuffleSlice2WithRepeats(list) ==
    IF Len(list) < 2 THEN {list}
    ELSE {<<list[i], list[j]>> : i \in 1..Len(list), j \in 1..Len(list)}

\* sort(() => 0.5 - Math.random()).slice(0, 2): the first two elements of
\* some permutation of the list
ShuffleSlice2(list) ==
    IF Len(list) < 2 THEN {list}
    ELSE {<<list[i], list[j]>> : i \in 1..Len(list), j \in 1..Len(list)} \
         {<<list[i], list[i]>> : i \in 1..Len(list)}

identifyDrivers(kpi, description) == ShuffleSlice2(DriverList(kpi, description))

(************************* calculateCorrelation ****************************)
Min(a, b) == IF a < b THEN a ELSE b

\* arr[lo] + ... + arr[hi - 1]; the sums of this section are exact, so they
\* are taken by halves, which keeps the evaluation of a long series shallow
RECURSIVE SumRange(_, _, _)
SumRange(arr, lo, hi) ==
    IF hi <= lo THEN RInt(0)
    ELSE IF hi = lo + 1 THEN At(arr, lo)
    ELSE LET mid == (lo + hi) \div 2
         IN RAdd(SumRange(arr, lo, mid), SumRange(arr, mid, hi))

\* arr.slice(0, n).reduce((a, b) => a + b), also reduce(..., 0) over n = length
SumFirst(arr, n) == SumRange(arr, 0, n)

\* the loop of calculateCorrelation over i = lo .. hi-1: what it adds to
\* numerator, denomX and denomY
RECURSIVE CorrLoop(_, _, _, _, _, _)
CorrLoop(xs, ys, meanX, meanY, lo, hi) ==
    IF hi <= lo THEN [numerator |-> RInt(0), denomX |-> RInt(0), denomY |-> RInt(0)]
    ELSE IF hi = lo + 1
    THEN LET dx == RSub(At(xs, lo), meanX)
             dy == RSub(At(ys, lo), meanY)
         IN [numerator |-> RMul(dx, dy), denomX |-> RMul(dx, dx), denomY |-> RMul(dy, dy)]
    ELSE LET mid == (lo + hi) \div 2
             a == CorrLoop(xs, ys, meanX, meanY, lo, mid)
             b == CorrLoop(xs, ys, meanX, meanY, mid, hi)
         IN [numerator |-> RAdd(a.numerator, b.numerator),
             denomX    |-> RAdd(a.denomX, b.denomX),
             denomY    |-> RAdd(a.denomY, b.denomY)]

CorrSums(xs, ys) ==
    LET n == Min(Len(xs), Len(ys))
        meanX == RDiv(SumFirst(xs, n), RInt(n))
        meanY == RDiv(SumFirst(ys, n), RInt(n))
    IN CorrLoop(xs, ys, meanX, meanY, 0, n)

\* the real number sign * sqrt(sq): a value a / Math.sqrt(b) with b > 0 is
\* kept exactly as its sign and its square a*a/b
CorrZero == [sign |-> 0, sq |-> RInt(0)]

DivSqrt(a, b) == [sign |-> Sign(a.n), sq |-> RDiv(RMul(a, a), b)]

\* the result divided by denomX * denomY, the square root left out
calculateCorrelationNoSqrt(xs, ys) ==
    IF Min(Len(xs), Len(ys)) = 0 THEN CorrZero
    ELSE LET s == CorrSums(xs, ys)
             prod == RMul(s.denomX, s.denomY)
         IN IF s.denomX = RInt(0) \/ s.denomY = RInt(0) THEN CorrZero
            ELSE DivSqrt(s.numerator, RMul(prod, prod))

\* n taken from x.length alone
calculateCorrelationLenX(xs, ys) ==
    IF Len(xs) = 0 THEN CorrZero
    ELSE LET n == Len(xs)
             meanX == RDiv(SumFirst(xs, n), RInt(n))
             meanY == RDiv(SumFirst(ys, n), RInt(n))
             s == CorrLoop(xs, ys, meanX, meanY, 0, n)
         IN IF s.denomX = RInt(0) \/ s.denomY = RInt(0) THEN CorrZero
            ELSE DivSqrt(s.numerator, RMul(s.denomX, s.denomY))

\* the zero guard testing denomX alone
calculateCorrelationXGuard(xs, ys) ==
    IF Min(Len(xs), Len(ys)) = 0 THEN CorrZero
    ELSE LET s == CorrSums(xs, ys)
         IN IF s.denomX = RInt(0) THEN CorrZero
            ELSE DivSqrt(s.numerator, RMul(s.denomX, s.denomY))

calculateCorrelation(xs, ys) ==
    IF Min(Len(xs), Len(ys)) = 0 THEN CorrZero
    ELSE LET s == CorrSums(xs, ys)
         IN IF s.denomX = RInt(0) \/ s.denomY = RInt(0) THEN CorrZero
            ELSE DivSqrt(s.numerator, RMul(s.denomX, s.denomY))

(****************************** actions ************************************)
\* a direct call of detectTrend(data)
DetectTrendCall ==
    /\ pc = "start"
    /\ trend' = detectTrend(data)
    /\ pc' = "trend"
    /\ UNCHANGED <<data, periods, kpiId, forecast, drivers, err>>
    /\ UNCHANGED corrVars
    /\ UNCHANGED statVars
    /\ UNCHANGED appVars

\* a direct call of createForecast(data, trend.line, per); periods records
\* the argument
CreateForecastCall ==
    /\ pc = "trend"
    /\ \E per \in 0..MaxPeriods :
         /\ periods' = per
         /\ forecast' = createForecast(data, trend.line, per)
    /\ pc' = "forecast"
    /\ UNCHANGED <<data, kpiId, trend, drivers, err>>
    /\ UNCHANGED corrVars
    /\ UNCHANGED statVars
    /\ UNCHANGED appVars

\* performAiAnalysis(data, kpi): createForecast runs with its default periods
PerformAiAnalysis ==
    /\ pc = "start"
    /\ LET t == detectTrend(data)
           f == createForecast(data, t.line, DefaultPeriods)
       IN \E kpi \in KpiIds :
            /\ kpiId' = kpi
            /\ periods' = DefaultPeriods
            /\ IF DriversThrows(kpi, t.description)
               THEN /\ err' = "TypeError"
                    /\ UNCHANGED <<trend, forecast, drivers>>
               ELSE /\ trend' = t
                    /\ forecast' = f
                    /\ drivers' \in identifyDrivers(kpi, t.description)
                    /\ err' = "none"
    /\ pc' = "done"
    /\ UNCHANGED data
    /\ UNCHANGED corrVars
    /\ UNCHANGED statVars
    /\ UNCHANGED appVars

Next == DetectTrendCall \/ CreateForecastCall \/ PerformAiAnalysis

Spec == Init /\ [][Next]_vars

(************************ correlation specification ************************)
\* the flat series of thirty 100s
FlatSeries == [i \in 1..30 |-> 100]

CorrScenarioSeqs == {<<5, 5, 5>>, <<1, 2, 3>>, FlatSeries}

CorrSeqs == {ToNumbers(s) : s \in SeqsUpTo(0..MaxCorrVal, MaxCorrLen) \cup CorrScenarioSeqs}

InitCorr ==
    /\ PipeIdle
    /\ StatsIdle
    /\ AppIdle
    /\ x \in CorrSeqs
    /\ y \in CorrSeqs
    /\ cpc = "start"
    /\ corr = CorrZero
    /\ sameKpi = FALSE

\* a direct call of calculateCorrelation(x, y)
CalculateCorrelationCall ==
    /\ cpc = "start"
    /\ corr' = calculateCorrelation(x, y)
    /\ cpc' = "done"
    /\ UNCHANGED <<x, y, sameKpi>>
    /\ UNCHANGED pipeVars
    /\ UNCHANGED statVars
    /\ UNCHANGED appVars

\* the literal 1 the memo returns for one and the same KPI
CorrOne == [sign |-> 1, sq |-> RInt(1)]

\* the correlation memo of KpiCorrelation for two selected KPIs with the
\* histories x and y; validKpis keeps only histories longer than 1, and same
\* tells whether both selections are one KPI (kpi1.id === kpi2.id)
KpiCorrelationMemo ==
    /\ cpc = "start"
    /\ Len(x) > 1
    /\ Len(y) > 1
    /\ \E same \in BOOLEAN :
         /\ same => x = y
         /\ sameKpi' = same
         /\ corr' = IF same THEN CorrOne ELSE calculateCorrelation(x, y)
    /\ cpc' = "memo"
    /\ UNCHANGED <<x, y>>
    /\ UNCHANGED pipeVars
    /\ UNCHANGED statVars
    /\ UNCHANGED appVars

NextCorr == CalculateCorrelationCall \/ KpiCorrelationMemo

SpecCorr == InitCorr /\ [][NextCorr]_vars

(************************** driver specification ***************************)
InitDrivers ==
    /\ data = <<>>
    /\ periods = 0
    /\ kpiId \in KpiIds
    /\ pc = "drivers"
    /\ \E label \in Labels : trend = [line |-> <<>>, description |-> label]
    /\ forecast = NoForecast
    /\ drivers = <<>>
    /\ err = "none"
    /\ CorrIdle
    /\ StatsIdle
    /\ AppIdle

\* a direct call of identifyDrivers(kpiId, trend.description)
IdentifyDriversCall ==
    /\ pc = "drivers"
    /\ IF DriversThrows(kpiId, trend.description)
       THEN /\ err' = "TypeError"
            /\ UNCHANGED drivers
       ELSE /\ drivers' \in identifyDrivers(kpiId, trend.description)
            /\ UNCHANGED err
    /\ pc' = "driversDone"
    /\ UNCHANGED <<data, periods, kpiId, trend, forecast>>
    /\ UNCHANGED corrVars
    /\ UNCHANGED statVars
    /\ UNCHANGED appVars

NextDrivers == IdentifyDriversCall

SpecDrivers == InitDrivers /\ [][NextDrivers]_vars

(************************** series statistics ******************************)
Infinity == [n |-> 1, d |-> 0]

\* Number.prototype.toFixed(digits): the nearest multiple of 10^-digits,
\* halves away from zero; the text is kept as the number it prints
ToFixed(a, digits) ==
    IF ~IsFinite(a) THEN a
    ELSE LET scale == 10^digits
             q == (2 * Abs(a.n) * scale + a.d) \div (2 * a.d)
         IN Norm(Sign(a.n) * q, scale)

\* Math.min(...arr): Infinity for no arguments
RECURSIVE MathMin(_, _)
MathMin(arr, n) ==
    IF n = 0 THEN Infinity
    ELSE LET rest == MathMin(arr, n - 1)
             v == At(arr, n - 1)
         IN IF IsNaN(v) \/ IsNaN(rest) THEN NaN
            ELSE IF RLt(v, rest) THEN v ELSE rest

\* Math.max(...arr): -Infinity for no arguments
RECURSIVE MathMax(_, _)
MathMax(arr, n) ==
    IF n = 0 THEN RNeg(Infinity)
    ELSE LET rest == MathMax(arr, n - 1)
             v == At(arr, n - 1)
         IN IF IsNaN(v) \/ IsNaN(rest) THEN NaN
            ELSE IF RGt(v, rest) THEN v ELSE rest

\* v || 1: 0 and NaN are falsy
OrOne(v) == IF v = RInt(0) \/ IsNaN(v) THEN RInt(1) ELSE v

\* the stats memo without the factor 100
KpiDeepDiveStatsNoPercent(arr) ==
    IF Len(arr) = 0
    THEN [avg |-> RInt(0), min |-> RInt(0), max |-> RInt(0), change |-> RInt(0)]
    ELSE [avg |-> RDiv(SumFirst(arr, Len(arr)), RInt(Len(arr))),
          min |-> MathMin(arr, Len(arr)),
          max |-> MathMax(arr, Len(arr)),
          change |-> IF Len(arr) > 1
                     THEN RDiv(RSub(At(arr, Len(arr) - 1), At(arr, 0)), OrOne(At(arr, 0)))
                     ELSE RInt(0)]

\* the stats memo of KpiDeepDive for a KPI with the history arr (a KPI
\* without a history gets the same zero record as an empty history)
KpiDeepDiveStats(arr) ==
    IF Len(arr) = 0
    THEN [avg |-> RInt(0), min |-> RInt(0), max |-> RInt(0), change |-> RInt(0)]
    ELSE [avg |-> RDiv(SumFirst(arr, Len(arr)), RInt(Len(arr))),
          min |-> MathMin(arr, Len(arr)),
          max |-> MathMax(arr, Len(arr)),
          change |-> IF Len(arr) > 1
                     THEN RMul(RDiv(RSub(At(arr, Len(arr) - 1), At(arr, 0)),
                                    OrOne(At(arr, 0))), RInt(100))
                     ELSE RInt(0)]

\* the stats of the prompt with the divisor data[0] left unguarded
DeepDiveStatsNoGuard(arr) ==
    [avg |-> ToFixed(RDiv(SumFirst(arr, Len(arr)), RInt(Len(arr))), 2),
     max |-> ToFixed(MathMax(arr, Len(arr)), 2),
     min |-> ToFixed(MathMin(arr, Len(arr)), 2),
     change |-> IF Len(arr) > 1
                THEN ToFixed(RMul(RDiv(RSub(At(arr, Len(arr) - 1), At(arr, 0)),
                                       At(arr, 0)), RInt(100)), 1)
                ELSE RInt(0)]

\* the stats object of generateDeepDiveAnalysis; every field is a text made
\* by toFixed, '0.0' being the number 0
DeepDiveStats(arr) ==
    [avg |-> ToFixed(RDiv(SumFirst(arr, Len(arr)), RInt(Len(arr))), 2),
     max |-> ToFixed(MathMax(arr, Len(arr)), 2),
     min |-> ToFixed(MathMin(arr, Len(arr)), 2),
     change |-> IF Len(arr) > 1
                THEN ToFixed(RMul(RDiv(RSub(At(arr, Len(arr) - 1), At(arr, 0)),
                                       OrOne(At(arr, 0))), RInt(100)), 1)
                ELSE RInt(0)]

StatVals == {0, 3, 5, 10}

StatSeqs == {ToNumbers(s) : s \in SeqsUpTo(StatVals, MaxStatLen)}

InitStats ==
    /\ PipeIdle
    /\ CorrIdle
    /\ AppIdle
    /\ history \in StatSeqs
    /\ spc = {}
    /\ stats = NoStats
    /\ promptStats = NoStats

\* KpiDeepDive renders: the stats memo runs on the selected history
KpiDeepDiveStatsMemo ==
    /\ "idle" \notin spc
    /\ "view" \notin spc
    /\ stats' = KpiDeepDiveStats(history)
    /\ spc' = spc \cup {"view"}
    /\ UNCHANGED <<history, promptStats>>
    /\ UNCHANGED pipeVars
    /\ UNCHANGED corrVars
    /\ UNCHANGED appVars

\* generateDeepDiveAnalysis(kpiName, history, period) up to the prompt:
\* getAiInstance throws when there is neither a client nor an API key, and
\* the catch block then returns the error text before any stats are made
GenerateDeepDiveAnalysis ==
    /\ "idle" \notin spc
    /\ "prompt" \notin spc
    /\ "failed" \notin spc
    /\ \E aiAvailable \in BOOLEAN :
         IF aiAvailable
         THEN /\ promptStats' = DeepDiveStats(history)
              /\ spc' = spc \cup {"prompt"}
         ELSE /\ spc' = spc \cup {"failed"}
              /\ UNCHANGED promptStats
    /\ UNCHANGED <<history, stats>>
    /\ UNCHANGED pipeVars
    /\ UNCHANGED corrVars
    /\ UNCHANGED appVars

NextStats == KpiDeepDiveStatsMemo \/ GenerateDeepDiveAnalysis

SpecStats == InitStats /\ [][NextStats]_vars

(***************************** AI service **********************************)
\* aiInstance is 0 for null and otherwise the number of the client object;
\* constructed counts the executions of new GoogleGenAI(...); apiKey tells
\* whether process.env.API_KEY is a non-empty string.  A request is one call
\* of a generate* function: out holds the returned string, or the chunks
\* yielded so far for a streaming generator.

\* getAiInstance with the check of the cached client left out
getAiInstanceNoCache(inst, key, n) ==
    IF ~key
    THEN [throws |-> TRUE, client |-> 0, aiInstance |-> inst, constructed |-> n]
    ELSE [throws |-> FALSE, client |-> n + 1, aiInstance |-> n + 1, constructed |-> n + 1]

getAiInstance(inst, key, n) ==
    IF inst # 0
    THEN [throws |-> FALSE, client |-> inst, aiInstance |-> inst, constructed |-> n]
    ELSE IF ~key
    THEN [throws |-> TRUE, client |-> 0, aiInstance |-> inst, constructed |-> n]
    ELSE [throws |-> FALSE, client |-> n + 1, aiInstance |-> n + 1, constructed |-> n + 1]

\* a wrapper whose failure leaves it as an exception
CatchRethrows(req) == [req EXCEPT !.state = "thrown"]

\* the catch block of a generate* function: the error text is returned, or
\* yielded as the last chunk of a generator
Catch(req) == [req EXCEPT !.state = "done", !.out = Append(@, "errorMessage")]

\* the next request is the first unused one
NextRequest(id) ==
    /\ requests[id].state = "unused"
    /\ \A j \in 1..(id - 1) : requests[j].state # "unused"

\* the environment sets or removes process.env.API_KEY
SetApiKey ==
    /\ apiKey' = ~apiKey
    /\ UNCHANGED <<aiInstance, constructed, requests>>
    /\ UNCHANGED notAiVars

\* a generate* function (not a generator) up to its await: getAiInstance and
\* the request to the service
GenerateCall ==
    /\ \E id \in 1..MaxCalls :
         /\ NextRequest(id)
         /\ LET g == getAiInstance(aiInstance, apiKey, constructed)
                req == [kind |-> "call", state |-> "pending", client |-> g.client, out |-> <<>>]
            IN /\ aiInstance' = g.aiInstance
               /\ constructed' = g.constructed
               /\ requests' = [requests EXCEPT ![id] = IF g.throws THEN Catch(req) ELSE req]
    /\ UNCHANGED apiKey
    /\ UNCHANGED notAiVars

\* the service answers a generate* function, or the call fails
GenerateSettle ==
    /\ \E id \in 1..MaxCalls :
         /\ requests[id].kind = "call"
         /\ requests[id].state = "pending"
         /\ \E ok \in BOOLEAN :
              requests' = [requests EXCEPT ![id] =
                  IF ok THEN [@ EXCEPT !.state = "done", !.out = <<"text">>]
                  ELSE Catch(@)]
    /\ UNCHANGED <<apiKey, aiInstance, constructed>>
    /\ UNCHANGED notAiVars

\* a generate*Stream generator is started: getAiInstance and the request of
\* the stream
StreamCall ==
    /\ \E id \in 1..MaxCalls :
         /\ NextRequest(id)
         /\ LET g == getAiInstance(aiInstance, apiKey, constructed)
                req == [kind |-> "stream", state |-> "pending", client |-> g.client, out |-> <<>>]
            IN /\ aiInstance' = g.aiInstance
               /\ constructed' = g.constructed
               /\ requests' = [requests EXCEPT ![id] = IF g.throws THEN Catch(req) ELSE req]
    /\ UNCHANGED apiKey
    /\ UNCHANGED notAiVars

\* the generator yields the next chunk of the service's stream
StreamChunk ==
    /\ \E id \in 1..MaxCalls :
         /\ requests[id].kind = "stream"
         /\ requests[id].state = "pending"
         /\ Len(requests[id].out) < MaxChunks
         /\ requests' = [requests EXCEPT ![id].out = Append(@, "chunk")]
    /\ UNCHANGED <<apiKey, aiInstance, constructed>>
    /\ UNCHANGED notAiVars

\* the service's stream ends and the generator returns
StreamEnd ==
    /\ \E id \in 1..MaxCalls :
         /\ requests[id].kind = "stream"
         /\ requests[id].state = "pending"
         /\ requests' = [requests EXCEPT ![id].state = "done"]
    /\ UNCHANGED <<apiKey, aiInstance, constructed>>
    /\ UNCHANGED notAiVars

\* the request of the stream or the stream itself fails
StreamFail ==
    /\ \E id \in 1..MaxCalls :
         /\ requests[id].kind = "stream"
         /\ requests[id].state = "pending"
         /\ requests' = [requests EXCEPT ![id] = Catch(@)]
    /\ UNCHANGED <<apiKey, aiInstance, constructed>>
    /\ UNCHANGED notAiVars

InitAi == CoreIdle /\ AiIdle /\ ChatIdle /\ CalcIdle /\ FrameIdle /\ TourIdle

NextAi ==
    \/ SetApiKey
    \/ GenerateCall
    \/ GenerateSettle
    \/ StreamCall
    \/ StreamChunk
    \/ StreamEnd
    \/ StreamFail

SpecAi == InitAi /\ [][NextAi]_vars

(***************************** chat modal **********************************)
\* The dashboard mounts AiChatModal while the modal is open and unmounts it
\* on close, so every opening is a new instance of the component with its
\* own isThinking, streamingResponse and stopGenerationRef; chatHistory is
\* the dashboard's history of the selected KPI.  A string is the sequence of
\* its characters: the k-th chunk of a stream is <<k>>,
\* the error text of generateChatResponseStream is <<0>> and the question of
\* the send with number id is <<-id>>.  A send is one run of
\* handleSendMessage with its locals: yielded are the chunks its generator
\* has yielded and consumed is the number of them appended to finalResponse.

RECURSIVE Flatten(_)
Flatten(chunks) ==
    IF chunks = <<>> THEN <<>> ELSE Head(chunks) \o Flatten(Tail(chunks))

ErrorChunk == <<0>>

UserMessage(id) == [role |-> "user", text |-> <<-id>>]

ModelMessage(text) == [role |-> "model", text |-> text]

\* the instance that started the send is still the mounted one
Mounted(s) == modalOpen /\ s.inst = instance

\* the finally block of handleSendMessage
Finally(s, id) ==
    /\ chatHistory' = IF s.finalResponse # <<>>
                      THEN s.historyForApi \o <<UserMessage(id), ModelMessage(s.finalResponse)>>
                      ELSE chatHistory
    /\ isThinking' = IF Mounted(s) THEN FALSE ELSE isThinking
    /\ streamingResponse' = IF Mounted(s) THEN NullResponse ELSE streamingResponse

\* the body of the for await loop with the check of the stop flag left out
ConsumeUnchecked(s, chunk) ==
    [s EXCEPT !.yielded = Append(@, chunk),
              !.consumed = @ + 1,
              !.finalResponse = @ \o chunk]

\* the body of the for await loop for one chunk: break when the stop flag of
\* the send's instance is set, otherwise append the chunk
Consume(s, chunk) ==
    IF stopGeneration[s.inst]
    THEN [s EXCEPT !.yielded = Append(@, chunk), !.state = "done"]
    ELSE [s EXCEPT !.yielded = Append(@, chunk),
                   !.consumed = @ + 1,
                   !.finalResponse = @ \o chunk]

\* handleOpenAnalysisModal: the modal is mounted, and its effect on isOpen
\* sets the stop flag
OpenModal ==
    /\ ~modalOpen
    /\ instance < MaxSends
    /\ modalOpen' = TRUE
    /\ instance' = instance + 1
    /\ analysisReady' = FALSE
    /\ isThinking' = FALSE
    /\ streamingResponse' = NullResponse
    /\ stopGeneration' = [stopGeneration EXCEPT ![instance + 1] = TRUE]
    /\ UNCHANGED <<chatHistory, sends, aiInstance, constructed>>
    /\ UNCHANGED <<edits, notChatVars>>

\* handleOpenAnalysisModal after its await: initialAnalysisData is set
AnalysisLoaded ==
    /\ modalOpen
    /\ ~analysisReady
    /\ analysisReady' = TRUE
    /\ UNCHANGED <<modalOpen, instance, isThinking, streamingResponse,
                   stopGeneration, chatHistory, sends, aiInstance, constructed>>
    /\ UNCHANGED <<edits, notChatVars>>

\* handleCloseModal: the modal is unmounted and its state is dropped
CloseModal ==
    /\ modalOpen
    /\ modalOpen' = FALSE
    /\ analysisReady' = FALSE
    /\ isThinking' = FALSE
    /\ streamingResponse' = NullResponse
    /\ UNCHANGED <<instance, stopGeneration, chatHistory, sends, aiInstance, constructed>>
    /\ UNCHANGED <<edits, notChatVars>>

\* handleSendMessage up to the first await of the stream: the generator
\* runs getAiInstance at once; when that throws, the error text is the only
\* chunk, and the loop and the finally block run before any other event
HandleSendMessage ==
    /\ modalOpen
    /\ ~isThinking
    /\ analysisReady
    /\ \E id \in 1..MaxSends :
         /\ sends[id].state = "unused"
         /\ \A j \in 1..(id - 1) : sends[j].state # "unused"
         /\ LET g == getAiInstance(aiInstance, apiKey, constructed)
                s == [state |-> "streaming", inst |-> instance, historyForApi |-> chatHistory,
                      yielded |-> <<>>, consumed |-> 0, finalResponse |-> <<>>]
            IN /\ aiInstance' = g.aiInstance
               /\ constructed' = g.constructed
               /\ stopGeneration' = [stopGeneration EXCEPT ![instance] = FALSE]
               /\ IF g.throws
                  THEN /\ sends' = [sends EXCEPT ![id] = Returned]
                       /\ chatHistory' = chatHistory \o <<UserMessage(id), ModelMessage(ErrorChunk)>>
                       /\ isThinking' = FALSE
                       /\ streamingResponse' = NullResponse
                  ELSE /\ sends' = [sends EXCEPT ![id] = s]
                       /\ chatHistory' = chatHistory \o <<UserMessage(id)>>
                       /\ isThinking' = TRUE
                       /\ streamingResponse' = [isNull |-> FALSE, text |-> <<>>]
    /\ UNCHANGED <<modalOpen, instance, analysisReady>>
    /\ UNCHANGED <<edits, notChatVars>>

\* the service delivers the next chunk, the generator yields it and the loop
\* of handleSendMessage takes it
ChunkArrives ==
    /\ \E id \in 1..MaxSends :
         /\ sends[id].state = "streaming"
         /\ Len(sends[id].yielded) < MaxChunks
         /\ LET s == Consume(sends[id], <<Len(sends[id].yielded) + 1>>)
            IN   /\ sends' = [sends EXCEPT ![id] = IF s.state = "done" THEN Returned ELSE s]
                 /\ IF s.state = "done"
                    THEN Finally(s, id)
                    ELSE /\ streamingResponse' = IF Mounted(s)
                                                 THEN [isNull |-> FALSE, text |-> s.finalResponse]
                                                 ELSE streamingResponse
                         /\ UNCHANGED <<chatHistory, isThinking>>
    /\ UNCHANGED <<modalOpen, instance, analysisReady, stopGeneration, aiInstance, constructed>>
    /\ UNCHANGED <<edits, notChatVars>>

\* the service's stream ends, or it fails and the generator yields the error
\* text as its last chunk; the loop ends and the finally block runs
StreamFinishes ==
    /\ \E id \in 1..MaxSends :
         /\ sends[id].state = "streaming"
         /\ \E failed \in BOOLEAN :
              LET s == IF failed THEN [Consume(sends[id], ErrorChunk) EXCEPT !.state = "done"]
                       ELSE [sends[id] EXCEPT !.state = "done"]
              IN /\ sends' = [sends EXCEPT ![id] = Returned]
                 /\ Finally(s, id)
    /\ UNCHANGED <<modalOpen, instance, analysisReady, stopGeneration, aiInstance, constructed>>
    /\ UNCHANGED <<edits, notChatVars>>

\* handleStopGeneration; the button is rendered while isThinking
HandleStopGeneration ==
    /\ modalOpen
    /\ isThinking
    /\ ~stopGeneration[instance]
    /\ stopGeneration' = [stopGeneration EXCEPT ![instance] = TRUE]
    /\ UNCHANGED <<modalOpen, instance, analysisReady, isThinking, streamingResponse,
                   chatHistory, sends, aiInstance, constructed>>
    /\ UNCHANGED <<edits, notChatVars>>

\* handleDeleteMessage(indexToDelete); edits counts the deletions and
\* clearings
HandleDeleteMessage ==
    /\ modalOpen
    /\ edits < MaxEdits
    /\ edits' = edits + 1
    /\ \E i \in 1..Len(chatHistory) :
         chatHistory' = SubSeq(chatHistory, 1, i - 1) \o SubSeq(chatHistory, i + 1, Len(chatHistory))
    /\ UNCHANGED <<modalOpen, instance, analysisReady, isThinking, streamingResponse,
                   stopGeneration, sends, aiInstance, constructed>>
    /\ UNCHANGED notChatVars

\* handleClearChat, confirmed
HandleClearChat ==
    /\ modalOpen
    /\ edits < MaxEdits
    /\ edits' = edits + 1
    /\ chatHistory # <<>>
    /\ chatHistory' = <<>>
    /\ UNCHANGED <<modalOpen, instance, analysisReady, isThinking, streamingResponse,
                   stopGeneration, sends, aiInstance, constructed>>
    /\ UNCHANGED notChatVars

InitChat ==
    /\ CoreIdle
    /\ ChatIdle
    /\ CalcIdle
    /\ FrameIdle
    /\ TourIdle
    /\ apiKey \in BOOLEAN
    /\ aiInstance = 0
    /\ constructed = 0
    /\ requests = [id \in 1..MaxCalls |-> NoRequest]

NextChat ==
    \/ OpenModal
    \/ AnalysisLoaded
    \/ CloseModal
    \/ HandleSendMessage
    \/ ChunkArrives
    \/ StreamFinishes
    \/ HandleStopGeneration
    \/ HandleDeleteMessage
    \/ HandleClearChat

SpecChat == InitChat /\ [][NextChat]_vars

(***************************** calculateKpis *******************************)
\* the formulas of kpiFormulas on a record of metrics
revenue(m) == RMul(RMul(m.traffic, m.conversionRate), m.avgOrderValue)

salesCount(m) == RMul(m.traffic, m.conversionRate)

profit(m) == RSub(revenue(m), m.costs)

roi(m) == IF m.costs = RInt(0) THEN RInt(0) ELSE RDiv(profit(m), m.costs)

cpa(m) == IF salesCount(m) = RInt(0) THEN RInt(0) ELSE RDiv(m.costs, salesCount(m))

FormulaKeys == {"revenue", "salesCount", "profit", "roi", "cpa"}

\* kpiFormulas[key] applied to m, for a key with a formula
Formula(key, m) ==
    CASE key = "revenue" -> revenue(m)
      [] key = "salesCount" -> salesCount(m)
      [] key = "profit" -> profit(m)
      [] key = "roi" -> roi(m)
      [] key = "cpa" -> cpa(m)

\* kpiFormulas is an object literal, so kpiFormulas["__proto__"] is
\* Object.prototype: truthy, and not a function.  "oee" names nothing.
InheritedKeys == {"__proto__"}

RequestKeys == FormulaKeys \cup {"oee"} \cup InheritedKeys

\* alternativeMetrics = { ...baseMetrics } with every metric named in the
\* scenario multiplied by its factor; base is what baseMetrics is afterwards
ApplyScenario(base, scen) ==
    [base |-> base,
     alternative |-> [k \in MetricKeys |->
                        IF k \in DOMAIN scen THEN RMul(base[k], scen[k]) ELSE base[k]]]

\* the callback of kpiKeys.map for one key
KpiResult(key, base, alt) ==
    IF key \notin FormulaKeys
    THEN [key |-> key, baseValue |-> RInt(0), alternativeValue |-> RInt(0)]
    ELSE [key |-> key, baseValue |-> Formula(key, base), alternativeValue |-> Formula(key, alt)]

\* calling kpiFormulas[key] throws a TypeError for some requested key
CalcThrows(keys) == \E i \in 1..Len(keys) : keys[i] \in InheritedKeys

MetricsSet ==
    [traffic : {RInt(0), RInt(2)}, conversionRate : {RInt(0), Norm(1, 2)},
     avgOrderValue : {RInt(3)}, costs : {RInt(0), RInt(4)}]

\* every choice of metrics to change, each by the factor 2
ScenarioSet == UNION {[D -> {RInt(2)}] : D \in SUBSET MetricKeys}

InitCalc ==
    /\ CoreIdle
    /\ AiIdle
    /\ ChatIdle
    /\ FrameIdle
    /\ TourIdle
    /\ baseMetrics \in MetricsSet
    /\ scenario \in ScenarioSet
    /\ kpiKeys \in SeqsUpTo(RequestKeys, MaxKeys)
    /\ results = <<>>
    /\ calcErr = "none"
    /\ kpc = "start"

\* calculateKpis(baseMetrics, scenario, kpiKeys)
CalculateKpis ==
    /\ kpc = "start"
    /\ LET m == ApplyScenario(baseMetrics, scenario)
       IN /\ baseMetrics' = m.base
          /\ IF CalcThrows(kpiKeys)
             THEN /\ calcErr' = "TypeError"
                  /\ UNCHANGED results
             ELSE /\ results' = [i \in 1..Len(kpiKeys) |->
                                   KpiResult(kpiKeys[i], m.base, m.alternative)]
                  /\ UNCHANGED calcErr
    /\ kpc' = "done"
    /\ UNCHANGED <<scenario, kpiKeys>>
    /\ UNCHANGED notCalcVars

NextCalc == CalculateKpis

SpecCalc == InitCalc /\ [][NextCalc]_vars

(********************** several analyses side by side **********************)
\* analyses[id] is one call of performAiAnalysis: input is the content of
\* the series when the call was made, data the content of that array now,
\* and trend, forecast and drivers are the fields of the returned result.
\* pools are the candidate pools that the next call of identifyDrivers sees.

\* the pools as if positiveDrivers and negativeDrivers were shared by all
\* calls: the sort in place leaves the picked drivers in front
PoolsAfterSortShared(p, kpi, description, picked) ==
    LET rest(list) == SelectSeq(list, LAMBDA d : d # picked[1] /\ d # picked[2])
    IN IF IncludesGrowth(description)
       THEN [p EXCEPT !.positive[kpi] = picked \o rest(@)]
       ELSE IF IncludesDecline(description)
       THEN [p EXCEPT !.negative[kpi] = picked \o rest(@)]
       ELSE p

\* positiveDrivers and negativeDrivers are literals inside identifyDrivers:
\* every call builds them anew, so the array that sort reorders in place is
\* never seen by another call
PoolsAfterSort(p, kpi, description, picked) == p

\* the list identifyDrivers picks from, read from the pools p
DriversFrom(p, kpi, description) ==
    IF IncludesGrowth(description) THEN p.positive[kpi]
    ELSE IF IncludesDecline(description) THEN p.negative[kpi]
    ELSE p.positive[kpi] \o p.negative[kpi]

FrameSeries == {ToNumbers(<<197, 199, 201>>), ToNumbers(<<203, 200>>)}

FrameKpis == {"revenue", "Finance"}

Waiting(series, kpi) ==
    [state |-> "waiting", input |-> series, data |-> series, kpi |-> kpi,
     trend |-> NoTrend, forecast |-> NoForecast, drivers |-> <<>>]

InitFrame ==
    /\ CoreIdle
    /\ AiIdle
    /\ ChatIdle
    /\ TourIdle
    /\ analyses \in [1..MaxAnalyses -> {Waiting(s, k) : s \in FrameSeries, k \in FrameKpis}]
    /\ pools = [positive |-> positiveDrivers, negative |-> negativeDrivers]
    /\ baseMetrics = [traffic |-> RInt(2), conversionRate |-> Norm(1, 2),
                      avgOrderValue |-> RInt(3), costs |-> RInt(4)]
    /\ scenario \in {<<>>, [traffic |-> RInt(2), costs |-> RInt(2)]}
    /\ kpiKeys = <<"revenue", "roi">>
    /\ results = <<>>
    /\ calcErr = "none"
    /\ kpc = "start"

\* performAiAnalysis(data, kpi) for one of the analyses
AnalysisCall ==
    /\ \E id \in 1..MaxAnalyses :
         /\ analyses[id].state = "waiting"
         /\ LET a == analyses[id]
                t == detectTrend(a.data)
                f == createForecast(a.data, t.line, DefaultPeriods)
            IN IF DriversThrows(a.kpi, t.description)
               THEN /\ analyses' = [analyses EXCEPT ![id].state = "failed"]
                    /\ UNCHANGED pools
               ELSE \E picked \in ShuffleSlice2(DriversFrom(pools, a.kpi, t.description)) :
                      /\ analyses' = [analyses EXCEPT ![id] =
                             [a EXCEPT !.state = "done", !.trend = t,
                                       !.forecast = f, !.drivers = picked]]
                      /\ pools' = PoolsAfterSort(pools, a.kpi, t.description, picked)
    /\ UNCHANGED <<coreVars, aiVars, chatVars, calcVars, tourVars>>

\* calculateKpis(baseMetrics, scenario, kpiKeys) between the analyses
NextFrame == AnalysisCall \/ CalculateKpis

SpecFrame == InitFrame /\ [][NextFrame]_vars

(***************************************************************************)
(* The guided tour: App.tsx keeps isTourOpen and tourStepIndex, the        *)
(* GuidedTour component of MainLayout.tsx turns clicks into onNext, onPrev *)
(* and onFinish.  The handlers schedule the index update with              *)
(* setTimeout(..., 100); all delays are equal, so the scheduled updates    *)
(* fire in the order they were scheduled (timers is that queue).  The      *)
(* page effect of App.tsx runs after every commit and is part of every     *)
(* action.  lastEvent records which handler ran last.                      *)
(***************************************************************************)
TourSteps == 7

\* tourSteps[i].page, "none" where the step names no page.
StepPage(i) ==
    IF i \in 1..4 THEN "dashboard"
    ELSE IF i \in 5..6 THEN "reports"
    ELSE "none"

\* tourSteps[i].action: the tab it sets, "none" where the step has no action.
StepAction(i) == IF i = 4 THEN "reports" ELSE "none"

Tabs == {"account", "dashboard", "reports", "settings"}

\* The effect "ensure the correct page is shown for the tour step".
PageEffect(open, idx, tab) ==
    IF open /\ StepPage(idx) # "none" /\ tab # StepPage(idx) THEN StepPage(idx) ELSE tab

handleFinishTour(tab) ==
    [isTourOpen |-> FALSE, tourStepIndex |-> 0, scheduled |-> <<>>, activeTab |-> tab]

handleNextStepUnguarded(open, idx, tab) ==
    LET nextStepIndex == idx + 1
    IN [isTourOpen |-> open, tourStepIndex |-> idx, scheduled |-> <<nextStepIndex>>,
        activeTab |-> IF StepAction(nextStepIndex) # "none"
                      THEN StepAction(nextStepIndex) ELSE tab]

handleNextStep(open, idx, tab) ==
    LET nextStepIndex == idx + 1
    IN IF nextStepIndex < TourSteps
       THEN [isTourOpen |-> open, tourStepIndex |-> idx, scheduled |-> <<nextStepIndex>>,
             activeTab |-> IF StepAction(nextStepIndex) # "none"
                           THEN StepAction(nextStepIndex) ELSE tab]
       ELSE handleFinishTour(tab)

handlePrevStep(open, idx, tab) ==
    LET prevStepIndex == idx - 1
    IN IF prevStepIndex >= 0
       THEN [isTourOpen |-> open, tourStepIndex |-> idx, scheduled |-> <<prevStepIndex>>,
             activeTab |-> IF StepAction(prevStepIndex) # "none"
                           THEN StepAction(prevStepIndex) ELSE tab]
       ELSE [isTourOpen |-> open, tourStepIndex |-> idx, scheduled |-> <<>>, activeTab |-> tab]

\* Commit of a handler's result r, followed by the page effect.
Commit(r, event) ==
    /\ isTourOpen' = r.isTourOpen
    /\ tourStepIndex' = r.tourStepIndex
    /\ timers' = timers \o r.scheduled
    /\ activeTab' = PageEffect(r.isTourOpen, r.tourStepIndex, r.activeTab)
    /\ lastEvent' = event
    /\ UNCHANGED hasSeenTour

\* The mount effect: the tour opens on the first visit of the session.
FirstVisit ==
    /\ ~hasSeenTour
    /\ isTourOpen' = TRUE
    /\ hasSeenTour' = TRUE
    /\ activeTab' = PageEffect(TRUE, tourStepIndex, activeTab)
    /\ lastEvent' = "mount"
    /\ UNCHANGED <<tourStepIndex, timers>>
    /\ UNCHANGED notTourVars

\* The "Далее" / "Завершить" button of the tooltip.
NextClick ==
    /\ hasSeenTour
    /\ isTourOpen
    /\ Len(timers) < MaxTimers
    /\ Commit(handleNextStep(isTourOpen, tourStepIndex, activeTab), "next")
    /\ UNCHANGED notTourVars

\* onPrev.  The tooltip shows its button only after the first step; the
\* handler is exercised on every step so that its own guard is checked.
PrevClick ==
    /\ hasSeenTour
    /\ isTourOpen
    /\ Len(timers) < MaxTimers
    /\ Commit(handlePrevStep(isTourOpen, tourStepIndex, activeTab), "prev")
    /\ UNCHANGED notTourVars

\* A click on the overlay or on the close button.
FinishClick ==
    /\ hasSeenTour
    /\ isTourOpen
    /\ Commit(handleFinishTour(activeTab), "finish")
    /\ UNCHANGED notTourVars

\* A scheduled setTourStepIndex runs, whether or not the tour is still open.
TimerFires ==
    /\ timers # <<>>
    /\ tourStepIndex' = Head(timers)
    /\ timers' = Tail(timers)
    /\ activeTab' = PageEffect(isTourOpen, Head(timers), activeTab)
    /\ lastEvent' = "timer"
    /\ UNCHANGED <<isTourOpen, hasSeenTour>>
    /\ UNCHANGED notTourVars

\* A click in the navigation, reachable while the overlay is not shown.
SetActiveTab ==
    /\ hasSeenTour
    /\ ~isTourOpen
    /\ \E tab \in Tabs :
         /\ tab # activeTab
         /\ activeTab' = tab
    /\ lastEvent' = "tab"
    /\ UNCHANGED <<isTourOpen, tourStepIndex, timers, hasSeenTour>>
    /\ UNCHANGED notTourVars

InitTour ==
    /\ CoreIdle /\ AiIdle /\ ChatIdle /\ CalcIdle /\ FrameIdle
    /\ isTourOpen = FALSE
    /\ tourStepIndex = 0
    /\ timers = <<>>
    /\ activeTab = "dashboard"
    /\ hasSeenTour \in BOOLEAN
    /\ lastEvent = "none"

NextTour ==
    \/ FirstVisit
    \/ NextClick
    \/ PrevClick
    \/ FinishClick
    \/ TimerFires
    \/ SetActiveTab

SpecTour == InitTour /\ [][NextTour]_vars

(******************************* claims ************************************)
\* detectTrend has returned and its result is held in trend
TrendDone == pc \in {"trend", "forecast"} \/ (pc = "done" /\ err = "none")

\* createForecast has returned and its result is held in forecast
ForecastDone == pc = "forecast" \/ (pc = "done" /\ err = "none")

\* data is y_i = a + b*i with b = data[1] - data[0]
IsLinearSeries(arr) ==
    /\ Len(arr) >= 2
    /\ \A i \in 1..(Len(arr) - 1) : RSub(arr[i + 1], arr[i]) = RSub(arr[2], arr[1])

\* C1: for a perfectly linear series of length n >= 2 the fitted line equals
\* the series at every index and the fitted slope equals the step b.
C1_LinearFit ==
    (TrendDone /\ IsLinearSeries(data)) =>
        /\ trend.line = data
        /\ Slope(data) = RSub(data[2], data[1])

C1_Witness ==
    /\ pc = "trend"
    /\ IsLinearSeries(data)
    /\ Len(data) >= 3
    /\ data[2] # data[1]
    /\ trend.line = data

\* the label bands as the claim states them
ClaimedLabel(slope, y0) ==
    IF RGt(slope, RMul(StrongFactor, y0)) THEN "strongGrowth"
    ELSE IF RGt(slope, RMul(ModerateFactor, y0)) THEN "moderateGrowth"
    ELSE IF RLt(slope, RNeg(RMul(StrongFactor, y0))) THEN "strongDecline"
    ELSE IF RLt(slope, RNeg(RMul(ModerateFactor, y0))) THEN "moderateDecline"
    ELSE "stable"

\* C2: for a series with first value y0 > 0 the label is exactly the band of
\* the regression slope (0.015*y0 and 0.005*y0 on either side), one of the
\* five labels, and a slope equal to a threshold falls in the weaker band.
C2_LabelBands ==
    (TrendDone /\ Len(data) >= 1 /\ RGt(At(data, 0), RInt(0))) =>
        LET y0 == At(data, 0)
            sl == Slope(data)
        IN /\ trend.description \in Labels
           /\ trend.description = ClaimedLabel(sl, y0)
           /\ (sl = RMul(StrongFactor, y0) => trend.description = "moderateGrowth")
           /\ (sl = RMul(ModerateFactor, y0) => trend.description = "stable")
           /\ (sl = RNeg(RMul(ModerateFactor, y0)) => trend.description = "stable")
           /\ (sl = RNeg(RMul(StrongFactor, y0)) => trend.description = "moderateDecline")

C2_Witness ==
    /\ pc = "trend"
    /\ At(data, 0) = RInt(200)
    /\ Slope(data) = RInt(3)
    /\ trend.description = "moderateGrowth"

Rank(label) ==
    CASE label = "strongDecline" -> 0
      [] label = "moderateDecline" -> 1
      [] label = "stable" -> 2
      [] label = "moderateGrowth" -> 3
      [] label = "strongGrowth" -> 4

\* slopes -5, -4.5, ..., 5 to compare the slope of data with
SlopeGrid == {Norm(k, 2) : k \in -10..10}

\* C3: for a fixed first value y0 > 0 a larger slope never gets a lower label
\* than a smaller slope (strongDecline < moderateDecline < stable <
\* moderateGrowth < strongGrowth).
C3_LabelMonotone ==
    (TrendDone /\ Len(data) >= 2 /\ RGt(At(data, 0), RInt(0))) =>
        LET sl == Slope(data)
        IN \A t \in SlopeGrid :
            LET other == TrendDescription(t, At(data, 0))
            IN /\ RLe(sl, t) => Rank(trend.description) <= Rank(other)
               /\ RLe(t, sl) => Rank(other) <= Rank(trend.description)

C3_Witness ==
    /\ pc = "trend"
    /\ At(data, 0) = RInt(199)
    /\ Slope(data) = RInt(2)
    /\ trend.description = "moderateGrowth"
    /\ TrendDescription(RInt(4), At(data, 0)) = "strongGrowth"
    /\ TrendDescription(RInt(0), At(data, 0)) = "stable"

\* C4: when the first value is 0, a positive slope is strong growth, a
\* negative slope is strong decline and a zero slope is stable.
C4_ZeroBaseline ==
    (TrendDone /\ Len(data) >= 2 /\ At(data, 0) = RInt(0)) =>
        LET sl == Slope(data)
        IN /\ RGt(sl, RInt(0)) => trend.description = "strongGrowth"
           /\ RLt(sl, RInt(0)) => trend.description = "strongDecline"
           /\ sl = RInt(0) => trend.description = "stable"

C4_Witness ==
    /\ pc = "trend"
    /\ Len(data) >= 2
    /\ At(data, 0) = RInt(0)
    /\ RLt(Slope(data), RInt(0))
    /\ trend.description = "strongDecline"

\* C5: a series of fewer than 2 points is rejected with InvalidInput by the
\* Trend Detector, the Forecaster and the Orchestrator, and a horizon below 1
\* is rejected by the Forecaster, instead of a result being returned.
C5_InvalidInputRejected ==
    \/ pc = "start"
    \/ (Len(data) >= 2 /\ (pc = "forecast" => periods >= 1))
    \/ err = "InvalidInput"

\* C6: for a series of length >= 2 and a horizon >= 1 createForecast returns
\* exactly horizon values.
C6_HorizonLength ==
    (ForecastDone /\ Len(data) >= 2 /\ periods >= 1) =>
        Len(forecast.values) = periods

C6_Witness ==
    /\ pc = "forecast"
    /\ Len(data) >= 2
    /\ periods = MaxPeriods
    /\ Len(forecast.values) = MaxPeriods

\* C7: for n >= horizon and n >= 2 the k-th forecast value is
\* line[n-1] + (line[n-1] - line[n-2])*k
\*           + (series[n-horizon+k-1] - line[n-horizon+k-1]).
C7_ForecastValue ==
    (ForecastDone /\ Len(data) >= 2 /\ Len(data) >= periods) =>
        \A k \in 1..periods :
            LET n == Len(data)
                line == trend.line
                projected == RAdd(At(line, n - 1),
                                  RMul(RSub(At(line, n - 1), At(line, n - 2)), RInt(k)))
                residual == RSub(At(data, n - periods + k - 1),
                                 At(line, n - periods + k - 1))
            IN /\ k <= Len(forecast.values)
               /\ forecast.values[k] = RAdd(projected, residual)
               /\ IsFinite(forecast.values[k])

C7_Witness ==
    /\ pc = "forecast"
    /\ periods >= 2
    /\ Len(data) > periods
    /\ data # trend.line
    /\ forecast.values[1] # forecast.values[2]

\* C8: when 2 <= n < horizon no residual is read outside the series, so each
\* of the horizon forecast values is a defined number.
C8_ShortSeriesDefined ==
    (ForecastDone /\ Len(data) >= 2 /\ Len(data) < periods) =>
        /\ Len(forecast.values) = periods
        /\ \A k \in 1..Len(forecast.values) : IsFinite(forecast.values[k])

RECURSIVE SumSeq(_)
SumSeq(s) == IF s = <<>> THEN RInt(0) ELSE RAdd(s[1], SumSeq(Tail(s)))

\* C9: the number in the forecast summary is the arithmetic mean of all
\* forecast values (their sum divided by the horizon).
C9_SummaryIsMean ==
    (ForecastDone /\ periods >= 1) =>
        forecast.description =
            ToFixed0(RDiv(SumSeq(forecast.values), RInt(Len(forecast.values))))

C11_CorrelationSymmetric ==
    cpc = "done" => corr = calculateCorrelation(y, x)

C11_Witness ==
    /\ cpc = "done"
    /\ Len(x) > Len(y)
    /\ Len(y) >= 3
    /\ corr.sign = 1
    /\ RLt(corr.sq, RInt(1))

NonConstant(s) == \E i, j \in 1..Len(s) : s[i] # s[j]

\* C12: for a sequence x with at least two distinct values
\* calculateCorrelation(x, x) is 1.
C12_SelfCorrelationNonConstant ==
    (cpc = "done" /\ x = y /\ NonConstant(x)) => corr = CorrOne

C12_Witness ==
    /\ cpc = "done"
    /\ x = y
    /\ NonConstant(x)
    /\ Len(x) >= 3
    /\ corr = CorrOne

\* the first n elements of s are all equal
ConstantPrefix(s, n) == \A i, j \in 1..n : s[i] = s[j]

C14_SelfCorrelationIsOne ==
    (cpc \in {"done", "memo"} /\ x = y /\ Len(x) >= 1) => corr = CorrOne

\* (last - first) / d * 100 with d = first, or 1 when first is 0, for a
\* length above 1, and 0 for the length 1
ClaimedChange(arr) ==
    IF Len(arr) > 1
    THEN LET first == arr[1]
             last == arr[Len(arr)]
             d == IF first # RInt(0) THEN first ELSE RInt(1)
         IN RMul(RDiv(RSub(last, first), d), RInt(100))
    ELSE RInt(0)

\* C15 as stated: for a non-empty sequence changePercent is
\* (last - first) / d * 100 (0 for the length 1) in the deep-dive view and in
\* the deep-dive prompt builder alike.
C15_ChangePercentBoth ==
    Len(history) >= 1 =>
        /\ "view" \in spc => stats.change = ClaimedChange(history)
        /\ "prompt" \in spc => promptStats.change = ClaimedChange(history)

\* C15 amended: the view holds (last - first) / d * 100 (0 for the length 1);
\* the prompt builder holds that value rounded to one decimal by toFixed(1).
C15_ChangePercentRounded ==
    Len(history) >= 1 =>
        /\ "view" \in spc => stats.change = ClaimedChange(history)
        /\ "prompt" \in spc => promptStats.change = ToFixed(ClaimedChange(history), 1)
        /\ {"view", "prompt"} \subseteq spc => promptStats.change = ToFixed(stats.change, 1)

C15_Witness ==
    /\ {"view", "prompt"} \subseteq spc
    /\ Len(history) > 1
    /\ history[1] # RInt(0)
    /\ promptStats.change # stats.change
    /\ promptStats.change = ToFixed(stats.change, 1)

\* C16 as stated: when the first value is 0 and the length is above 1,
\* changePercent is the last element itself; [0, 5, 10] gives 10.
C16_ZeroFirstIsLast ==
    ("view" \in spc /\ Len(history) > 1 /\ history[1] = RInt(0)) =>
        /\ stats.change = history[Len(history)]
        /\ history = ToNumbers(<<0, 5, 10>>) => stats.change = RInt(10)

\* C16 amended: when the first value is 0 and the length is above 1,
\* changePercent is 100 times the last element; [0, 5, 10] gives 1000.
C16_ZeroFirstIsHundredLast ==
    ("view" \in spc /\ Len(history) > 1 /\ history[1] = RInt(0)) =>
        /\ stats.change = RMul(RInt(100), history[Len(history)])
        /\ history = ToNumbers(<<0, 5, 10>>) => stats.change = RInt(1000)

C16_Witness ==
    /\ "view" \in spc
    /\ history = ToNumbers(<<0, 5, 10>>)
    /\ stats.change = RInt(1000)

ZeroStats == [avg |-> RInt(0), min |-> RInt(0), max |-> RInt(0), change |-> RInt(0)]

\* C17: on an empty sequence the statistics are the zero record
\* {avg: 0, min: 0, max: 0, changePercent: 0}, in the deep-dive view and in
\* the deep-dive prompt builder alike.
C17_EmptyIsZeroRecord ==
    Len(history) = 0 =>
        /\ "view" \in spc => stats = ZeroStats
        /\ "prompt" \in spc => promptStats = ZeroStats

\* identifyDrivers was called, directly or by performAiAnalysis, and is over
DriversCalled == pc \in {"driversDone", "done"}

RegisteredCategories == {"revenue", "sales", "new_clients", "conversion"}

\* C18: for every registered category and each of the five trend labels
\* identifyDrivers returns exactly 2 strings, and the two are distinct,
\* whatever the random choices are.
C18_TwoDistinctDrivers ==
    (DriversCalled /\ kpiId \in RegisteredCategories) =>
        /\ err = "none"
        /\ Len(drivers) = 2
        /\ drivers[1] # drivers[2]

C18_Witness ==
    /\ pc = "driversDone"
    /\ kpiId = "sales"
    /\ trend.description = "stable"
    /\ drivers = <<"sal_n2", "sal_p1">>

Elements(list) == {list[i] : i \in 1..Len(list)}

\* C19: for every registered category the returned drivers come from the
\* positive pool when the label is a growth label, from the negative pool
\* when it is a decline label, and from the union of both when it is stable.
C19_DriversMatchDirection ==
    (DriversCalled /\ err = "none" /\ kpiId \in RegisteredCategories) =>
        LET pos == Elements(positiveDrivers[kpiId])
            neg == Elements(negativeDrivers[kpiId])
            got == Elements(drivers)
        IN /\ trend.description \in {"moderateGrowth", "strongGrowth"} => got \subseteq pos
           /\ trend.description \in {"moderateDecline", "strongDecline"} => got \subseteq neg
           /\ trend.description = "stable" => got \subseteq (pos \cup neg)
           /\ trend.description \in Labels

C19_Witness ==
    /\ pc = "done"
    /\ kpiId = "revenue"
    /\ trend = detectTrend(data)
    /\ trend.description = "moderateDecline"
    /\ drivers = <<"rev_n3", "rev_n1">>

\* C20: for a category without registered pools the Driver Selector fails
\* with the UnknownCategory error, for growth, decline and stable alike, and
\* returns no driver list.
C20_UnknownCategoryError ==
    (DriversCalled /\ kpiId \notin RegisteredCategories) =>
        /\ err = "UnknownCategory"
        /\ drivers = <<>>

\* the series of the end-to-end scenario
EndToEndSeries == ToNumbers(<<100, 110, 105, 120, 115, 130, 125>>)

\* C21: analysing [100, 110, 105, 120, 115, 130, 125] with the category
\* "Финансы" (here "Finance") and the horizon 7 returns a complete result:
\* a growth label, a forecast of exactly 7 values and exactly 2 drivers.
C21_EndToEndScenario ==
    (pc = "done" /\ data = EndToEndSeries /\ kpiId = "Finance") =>
        /\ err = "none"
        /\ trend.description \in {"moderateGrowth", "strongGrowth"}
        /\ Len(forecast.values) = 7
        /\ Len(drivers) = 2

\* every element of the sequence is a finite number
AllFinite(s) == \A i \in 1..Len(s) : IsFinite(s[i])

\* C22: performAiAnalysis either propagates an error and returns nothing, or
\* returns a complete result whose trend line, label, forecast values,
\* forecast summary and two drivers are all present and well defined; it
\* never returns a result holding NaN or undefined fields.
C22_CompleteOrError ==
    pc = "done" =>
        \/ /\ err # "none"
           /\ trend = NoTrend
           /\ forecast = NoForecast
           /\ drivers = <<>>
        \/ /\ err = "none"
           /\ Len(trend.line) = Len(data)
           /\ AllFinite(trend.line)
           /\ trend.description \in Labels
           /\ Len(forecast.values) = DefaultPeriods
           /\ AllFinite(forecast.values)
           /\ IsFinite(forecast.description)
           /\ Len(drivers) = 2

\* a generate* call starts in this step
CallStarted ==
    \E id \in 1..MaxCalls : requests[id].state = "unused" /\ requests'[id].state # "unused"

\* C23: at most one client is ever constructed and every call that gets a
\* client gets that one; a call made without a client and without an API key
\* constructs and caches nothing, and a call made without a client once the
\* key is there constructs the client.
C23_LazySingleton ==
    /\ [](/\ constructed <= 1
          /\ aiInstance \in {0, 1}
          /\ aiInstance = constructed
          /\ \A id \in 1..MaxCalls : requests[id].client \in {0, aiInstance})
    /\ [][CallStarted =>
            /\ (aiInstance = 0 /\ ~apiKey) => (aiInstance' = 0 /\ constructed' = constructed)
            /\ (aiInstance = 0 /\ apiKey) => (aiInstance' = 1 /\ constructed' = 1)
            /\ aiInstance # 0 => (aiInstance' = aiInstance /\ constructed' = constructed)]_vars

\* a call failed for the missing key, a later one constructed the client and
\* a third one reused it
C23_Witness ==
    /\ requests[1].client = 0
    /\ requests[1].out = <<"errorMessage">>
    /\ requests[2].client = 1
    /\ requests[3].client = 1
    /\ constructed = 1

\* the send is running and the stop flag of its instance is set
Stopped(id) == sends[id].state = "streaming" /\ stopGeneration[sends[id].inst]

\* C24: the response of a running send is the in-order concatenation of the
\* chunks consumed so far; the generator's chunks are only ever extended by
\* one new chunk, so none is taken twice; once the stop flag is set no chunk
\* is appended to the response any more: the send ends at the next chunk
\* with the response it had; and a send that is over is never resumed.
C24_StreamingWithCancellation ==
    /\ [](\A id \in 1..MaxSends :
            /\ sends[id].consumed <= Len(sends[id].yielded)
            /\ Len(sends[id].yielded) <= MaxChunks
            /\ sends[id].finalResponse =
                   Flatten(SubSeq(sends[id].yielded, 1, sends[id].consumed)))
    /\ [][\A id \in 1..MaxSends :
            /\ (Stopped(id) /\ sends'[id] # sends[id]) =>
                   /\ sends'[id].state = "done"
                   /\ chatHistory' =
                          IF sends[id].finalResponse # <<>>
                          THEN sends[id].historyForApi \o
                               <<UserMessage(id), ModelMessage(sends[id].finalResponse)>>
                          ELSE chatHistory
            /\ sends[id].state = "done" => sends'[id] = sends[id]
            /\ (sends[id].state = "streaming" /\ sends'[id].state = "streaming") =>
                   \/ sends'[id].yielded = sends[id].yielded
                   \/ /\ Len(sends'[id].yielded) = Len(sends[id].yielded) + 1
                      /\ SubSeq(sends'[id].yielded, 1, Len(sends[id].yielded)) = sends[id].yielded
                      /\ sends'[id].consumed = sends[id].consumed + 1]_vars

\* a send that was stopped after its first chunk and ended with that chunk
\* as its response
C24_Witness ==
    /\ sends[1].state = "done"
    /\ stopGeneration[1]
    /\ chatHistory = <<UserMessage(1), ModelMessage(<<1>>)>>

\* C25: calculateKpis returns one result per requested key in the order
\* requested; a key without a formula gets baseValue = alternativeValue = 0
\* and no error; roi is 0 for costs = 0 and cpa is 0 for no sales; the
\* alternative value is the formula on the metrics changed by the scenario,
\* so an empty scenario gives alternativeValue = baseValue.
C25_CalculateKpis ==
    kpc = "done" =>
        /\ calcErr = "none"
        /\ Len(results) = Len(kpiKeys)
        /\ \A i \in 1..Len(kpiKeys) :
             LET r == results[i]
                 alt == [k \in MetricKeys |->
                           IF k \in DOMAIN scenario
                           THEN RMul(baseMetrics[k], scenario[k]) ELSE baseMetrics[k]]
             IN /\ r.key = kpiKeys[i]
                /\ kpiKeys[i] \notin FormulaKeys =>
                       (r.baseValue = RInt(0) /\ r.alternativeValue = RInt(0))
                /\ kpiKeys[i] \in FormulaKeys =>
                       /\ r.baseValue = Formula(kpiKeys[i], baseMetrics)
                       /\ r.alternativeValue = Formula(kpiKeys[i], alt)
                       /\ IsFinite(r.baseValue)
                       /\ IsFinite(r.alternativeValue)
                /\ (kpiKeys[i] = "roi" /\ baseMetrics.costs = RInt(0)) => r.baseValue = RInt(0)
                /\ (kpiKeys[i] = "cpa" /\ salesCount(baseMetrics) = RInt(0)) => r.baseValue = RInt(0)
                /\ scenario = <<>> => r.alternativeValue = r.baseValue

\* slope, first value and label of every series of the input set that has
\* at least two elements
TrendRows ==
    {[slope |-> Slope(s), first |-> At(s, 0), description |-> detectTrend(s).description] :
        s \in {t \in SeriesSet : Len(t) >= 2}}

\* C26: for a series of length n >= 2 the fitted line has exactly n
\* elements, and every series with the same slope and the same first value
\* gets the same label.
C26_TrendResultInvariant ==
    (pc = "trend" /\ Len(data) >= 2) =>
        /\ Len(trend.line) = Len(data)
        /\ LET slope == Slope(data)
           IN \A row \in TrendRows :
                (row.slope = slope /\ row.first = At(data, 0))
                    => row.description = trend.description

\* [200, 0, 203] has the slope and the first value of [200, 203, 203]
C26_Witness ==
    /\ pc = "trend"
    /\ data = ToNumbers(<<200, 0, 203>>)
    /\ Slope(ToNumbers(<<200, 203, 203>>)) = Slope(data)
    /\ trend.description = "moderateGrowth"

\* C27: the analyses share no mutable state.  Every call leaves its input
\* series as it was, the pools that a later call sees are the pools of the
\* first call, the trend and the forecast of a finished analysis are those
\* of its own input whatever ran before or in between, its drivers come
\* from the unchanged pools, and calculateKpis leaves baseMetrics, the
\* scenario and the requested keys as they were.
C27_NoSharedState ==
    /\ [](/\ pools = [positive |-> positiveDrivers, negative |-> negativeDrivers]
          /\ \A id \in DOMAIN analyses :
               LET a == analyses[id]
               IN /\ a.data = a.input
                  /\ a.state = "done" =>
                        /\ a.trend = detectTrend(a.input)
                        /\ a.forecast = createForecast(a.input, a.trend.line, DefaultPeriods)
                        /\ a.drivers \in identifyDrivers(a.kpi, a.trend.description))
    /\ [][baseMetrics' = baseMetrics /\ scenario' = scenario /\ kpiKeys' = kpiKeys]_vars

\* two analyses of the same category and calculateKpis with a scenario are
\* all over, the second analysis having picked the drivers in pool order
C27_Witness ==
    /\ DOMAIN analyses = 1..MaxAnalyses
    /\ \A id \in DOMAIN analyses : analyses[id].state = "done" /\ analyses[id].kpi = "revenue"
    /\ analyses[1].input = analyses[2].input
    /\ analyses[1].drivers = <<"rev_p3", "rev_p1">>
    /\ analyses[2].drivers = <<"rev_p1", "rev_p2">>
    /\ kpc = "done"
    /\ scenario # <<>>
    /\ results[1].alternativeValue # results[1].baseValue

\* C28: no generate* wrapper ends with an exception.  A function that is
\* over has returned exactly one string, the error text when it failed; a
\* generator that failed has yielded the error text as its last chunk and
\* is over, and the chunks it had yielded before stay as they were.
C28_WrappersNeverThrow ==
    /\ [](\A id \in 1..MaxCalls :
            LET r == requests[id]
            IN /\ r.state \in {"unused", "pending", "done"}
               /\ (r.kind = "call" /\ r.state = "done") => Len(r.out) = 1
               /\ r.state = "pending" => \A i \in 1..Len(r.out) : r.out[i] # "errorMessage"
               /\ r.state = "done" =>
                     \A i \in 1..(Len(r.out) - 1) : r.out[i] # "errorMessage")
    /\ [][\A id \in 1..MaxCalls :
            /\ Len(requests'[id].out) >= Len(requests[id].out)
            /\ SubSeq(requests'[id].out, 1, Len(requests[id].out)) = requests[id].out
            /\ requests[id].state = "done" => requests'[id] = requests[id]]_vars

\* a function failed for the missing key, and a generator failed after its
\* first chunk
C28_Witness ==
    /\ requests[1] = [kind |-> "call", state |-> "done", client |-> 0, out |-> <<"errorMessage">>]
    /\ requests[2] = [kind |-> "stream", state |-> "done", client |-> 1,
                      out |-> <<"chunk", "errorMessage">>]

Streaming == {id \in 1..MaxSends : sends[id].state = "streaming"}

\* C29: at most one response stream of the chat modal is in progress at a
\* time; and a send that ends either leaves the history alone (no text was
\* received) or writes the history it captured at its start followed by its
\* user message and one model message with the received text, and leaves
\* the modal that started it with isThinking false and no streaming buffer.
C29_SingleStream ==
    /\ [](Cardinality(Streaming) <= 1)
    /\ [][\A id \in 1..MaxSends :
            /\ (sends[id].state = "streaming" /\ sends'[id].state = "done") =>
                   /\ \/ chatHistory' = chatHistory
                      \/ \E text \in {sends[id].finalResponse,
                                      sends[id].finalResponse \o ErrorChunk} :
                           /\ text # <<>>
                           /\ chatHistory' = sends[id].historyForApi \o
                                             <<UserMessage(id), ModelMessage(text)>>
                   /\ Mounted(sends[id]) =>
                          (~isThinking' /\ streamingResponse' = NullResponse)
            /\ (sends[id].state = "unused" /\ sends'[id].state = "done") =>
                   /\ chatHistory' = chatHistory \o <<UserMessage(id), ModelMessage(ErrorChunk)>>
                   /\ ~isThinking'
                   /\ streamingResponse' = NullResponse]_vars

\* C30: under every interleaving of Next, Previous and Finish clicks with
\* the delayed index updates they schedule, tourStepIndex stays within
\* 0 .. TourSteps - 1 (and so does every scheduled update); Next on the
\* last step closes the tour and sets the index to 0 without scheduling an
\* update; Previous on the first step changes nothing of the tour.
C30_TourIndexInRange ==
    /\ [](/\ tourStepIndex \in 0..(TourSteps - 1)
          /\ \A i \in 1..Len(timers) : timers[i] \in 0..(TourSteps - 1))
    /\ [][/\ (lastEvent' = "next" /\ isTourOpen /\ tourStepIndex = TourSteps - 1) =>
                 (~isTourOpen' /\ tourStepIndex' = 0 /\ timers' = timers)
          /\ (lastEvent' = "next" /\ isTourOpen /\ tourStepIndex < TourSteps - 1) =>
                 (isTourOpen' /\ tourStepIndex' = tourStepIndex
                    /\ timers' = Append(timers, tourStepIndex + 1))
          /\ (lastEvent' = "prev" /\ tourStepIndex = 0) =>
                 (UNCHANGED <<isTourOpen, tourStepIndex, timers, activeTab>>)]_vars

\* Next was clicked on the last step while an earlier update was still
\* scheduled: the tour is closed with index 0 and the update is pending.
C30_Witness ==
    /\ lastEvent = "next"
    /\ ~isTourOpen
    /\ tourStepIndex = 0
    /\ timers = <<TourSteps - 1>>

====
